---- MODULE Spec2Model ----
(***************************************************************************)
(* GyroLogger: the App component of src/unnamed/part_000 (sensor windows,  *)
(* logging session, file appends) and the window/normalize part it shares  *)
(* with src/App.tsx.                                                       *)
(*                                                                         *)
(* The component runs on a single-threaded event loop.  One action of the  *)
(* model is one callback run to its next suspension point: a queued touch  *)
(* delivered to onPress, a sensor emission delivered to the subscribers,   *)
(* the completion of a file write or append, the flush of the pending      *)
(* passive effect.                                                         *)
(***************************************************************************)
EXTENDS Integers, Sequences, FiniteSets, Bags, TLC

VARIABLES
    accData,        \* useState: window of the accelerometer samples
    gyroData,       \* useState: window of the gyroscope samples
    accLogPath,     \* useState: published path of the acc log ('' = NoPath)
    gyroLogPath,    \* useState: published path of the gyro log
    isLogging,      \* useState: Idle (FALSE) / Active (TRUE)
    subs,           \* live subscriptions: the values each callback pair closed over
    effectPending,  \* a commit changed the effect's deps and the effect has not run yet
    mounted,        \* the component is mounted
    now,            \* the last value read from the wall clock (new Date(), Date.now())
    taps,           \* touches on the toggle button not yet delivered to onPress
    starts,         \* bag of handleToggleLogging invocations suspended at an await
    appendQ,        \* bag of RNFS.appendFile calls submitted and not yet completed
    files,          \* the file system: path -> lines
    console,        \* the messages written with console.log so far (their prefixes)
    emitted,        \* history: per stream, every sample the source emitted
    started,        \* history: the number of start branches taken so far
    shared,         \* the url lists handed to Share.open so far
    sharing,        \* the number of handleShareLogs invocations suspended at await Share.open
    callArrays,     \* a call of normalizeArrays on its own: the argument arrays
    callMaxLength,  \* ... the argument maxLength
    callReturned    \* ... the values returned so far: by the call, by a call on its result

vars == <<accData, gyroData, accLogPath, gyroLogPath, isLogging, subs,
          effectPending, mounted, now, taps, starts, appendQ, files, console,
          emitted, started, shared, sharing, callArrays, callMaxLength, callReturned>>

\* the part of the state the component's handlers other than handleShareLogs
\* never touch
apart == <<shared, sharing, callArrays, callMaxLength, callReturned>>

(***************************************************************************)
(* Bounds of the exploration.  Spec explores one logging session in depth; *)
(* SpecWide explores repeated and overlapping starts with fewer samples;   *)
(* SpecWindow fills the windows past their capacity; SpecNormalize calls   *)
(* normalizeArrays on its own; SpecTeardown adds the unmount; SpecShare    *)
(* and SpecLive explore the buttons and the starts without the sensors,    *)
(* SpecLive with the file writes settling.                                 *)
(***************************************************************************)
MaxSessions == 1    \* Spec: start branches taken
MaxEmit == 2        \* Spec: emissions, both streams together
MaxTaps == 1        \* Spec: touches queued ahead of the JS thread
WideSessions == 2   \* SpecWide: start branches taken
WideEmit == 1       \* SpecWide: emissions of the accelerometer
WideTaps == 2       \* SpecWide: touches queued ahead of the JS thread
MaxPush == 22       \* SpecWindow: emissions per stream
MaxArrayLength == 3 \* SpecNormalize: length of an argument array
MaxTarget == 4      \* SpecNormalize: the argument maxLength
DownSessions == 1   \* SpecTeardown: start branches taken
DownEmit == 2       \* SpecTeardown: emissions, both streams together
DownTaps == 1       \* SpecTeardown: touches queued ahead of the JS thread
ShareSessions == 2  \* SpecShare: start branches taken
ShareTaps == 2      \* SpecShare: touches queued ahead of the JS thread
SharePending == 1   \* SpecShare: Share.open calls not yet settled
LiveSessions == 1   \* SpecLive: start branches taken
LiveTaps == 2       \* SpecLive: touches queued ahead of the JS thread

(***************************************************************************)
(* Program constants and values.                                           *)
(***************************************************************************)
MAX_POINTS == 20

Streams == {"acc", "gyro"}

\* A JS number: finite (an integer here) or one of the non-finite values.
Num(n) == [k |-> "fin", v |-> n]
NaN == [k |-> "nan", v |-> 0]
PosInf == [k |-> "inf", v |-> 1]

\* The input: the n-th sample a source emits.  Samples differ from one another,
\* and every second and third one carries a non-finite field.
SampleAt(n) ==
    [x |-> Num(n),
     y |-> IF n % 2 = 0 THEN NaN ELSE Num(0 - n),
     z |-> IF n % 3 = 0 THEN PosInf ELSE Num(n + 100)]

NoPath == <<>>
Header == [text |-> "timestamp,x,y,z"]

AccAppendError == "ACC append error:"
GyroAppendError == "GYRO append error:"
FileCreateError == "File create error:"

ShareError == "Share error:"
StartTitle == "Start Logging"
StopTitle == "Stop Logging"


(***************************************************************************)
(* Pure functions.                                                         *)
(***************************************************************************)
\* Number.isFinite(val) ? val : 0
safeValue(val) == IF val.k = "fin" THEN val ELSE Num(0)

\* arr.slice(from) for 0 <= from
SliceFrom(arr, from) == SubSeq(arr, from + 1, Len(arr))

\* Array(n).fill(0)
Zeros(n) == [i \in 1..n |-> Num(0)]

\* the per-array body, had the padding been put behind: [...clamped, ...padding]
normalizeArrayPadsBack(arr, maxLength) ==
    LET clamped == [i \in 1..Len(arr) |-> safeValue(arr[i])]
    IN  IF Len(clamped) > maxLength
          THEN SliceFrom(clamped, Len(clamped) - maxLength)
          ELSE IF Len(clamped) < maxLength
                 THEN clamped \o Zeros(maxLength - Len(clamped))
                 ELSE clamped

\* the per-array body, had missing been one too many: maxLength - clamped.length + 1
normalizeArrayPadsOneMore(arr, maxLength) ==
    LET clamped == [i \in 1..Len(arr) |-> safeValue(arr[i])]
    IN  IF Len(clamped) > maxLength
          THEN SliceFrom(clamped, Len(clamped) - maxLength)
          ELSE IF Len(clamped) < maxLength
                 THEN Zeros(maxLength - Len(clamped) + 1) \o clamped
                 ELSE clamped

\* the per-array body of normalizeArrays
normalizeArray(arr, maxLength) ==
    LET clamped == [i \in 1..Len(arr) |-> safeValue(arr[i])]
    IN  IF Len(clamped) > maxLength
          THEN SliceFrom(clamped, Len(clamped) - maxLength)
          ELSE IF Len(clamped) < maxLength
                 THEN Zeros(maxLength - Len(clamped)) \o clamped
                 ELSE clamped

\* normalizeArrays(arrays, maxLength): arrays.map(...)
normalizeArrays(arrays, maxLength) ==
    [i \in 1..Len(arrays) |-> normalizeArray(arrays[i], maxLength)]

\* new Date().toISOString().replace(/[:.]/g, '-') at clock value t: the ISO
\* string has millisecond resolution, so the token names the millisecond.
createTimestamp(t) == [iso |-> t]

\* `${RNFS.DocumentDirectoryPath}/${time}_acc.log` and ..._gyro.log
PathOf(time, s) == <<time, s>>

\* `${x}`: Number::toString of a field of the sample
NumberToString(val) ==
    CASE val.k = "nan" -> [form |-> "NaN", value |-> 0]
      [] val.k = "inf" -> [form |-> "Infinity", value |-> 0]
      [] OTHER -> [form |-> "decimal", value |-> val.v]

\* the line, had the fields been passed through safeValue first
LogLineSanitized(t, v, n) ==
    [ts |-> t, x |-> NumberToString(safeValue(v.x)), y |-> NumberToString(safeValue(v.y)),
     z |-> NumberToString(safeValue(v.z)), n |-> n]

\* `${Date.now()},${x},${y},${z}\n`; n is the arrival number of the sample in
\* its stream (history, not part of the text).
LogLine(t, v, n) ==
    [ts |-> t, x |-> NumberToString(v.x), y |-> NumberToString(v.y), z |-> NumberToString(v.z), n |-> n]

\* the updater, had it sliced from the front: updated.slice(0, MAX_POINTS)
PushSampleKeepsOldest(prev, v) ==
    LET updated == Append(prev, v)
    IN  IF Len(updated) > MAX_POINTS
          THEN SubSeq(updated, 1, MAX_POINTS)
          ELSE updated

\* the updater of setAccData / setGyroData
PushSample(prev, v) ==
    LET updated == Append(prev, v)
    IN  IF Len(updated) > MAX_POINTS
          THEN SliceFrom(updated, Len(updated) - MAX_POINTS)
          ELSE updated

(***************************************************************************)
(* State access by stream.                                                 *)
(***************************************************************************)
Data(s) == IF s = "acc" THEN accData ELSE gyroData
LogPath(s) == IF s = "acc" THEN accLogPath ELSE gyroLogPath
\* accData.map(d => d.x) and the like (lines 99-105)
AxisOf(data, axis) == [i \in 1..Len(data) |-> data[i][axis]]

\* the arrays handed to renderChart, had the z array been built from d.x
RenderedRepeatsX(s) ==
    normalizeArrays(<<AxisOf(Data(s), "x"), AxisOf(Data(s), "y"), AxisOf(Data(s), "x")>>,
                    MAX_POINTS)

\* [accXNorm, accYNorm, accZNorm] and the gyro ones (lines 108-109, 214-215)
Rendered(s) ==
    normalizeArrays(<<AxisOf(Data(s), "x"), AxisOf(Data(s), "y"), AxisOf(Data(s), "z")>>,
                    MAX_POINTS)

ClosurePath(c, s) == IF s = "acc" THEN c.accLogPath ELSE c.gyroLogPath
AppendError(s) == IF s = "acc" THEN AccAppendError ELSE GyroAppendError

\* what a render hands to the effect and to the button
Closure == [isLogging |-> isLogging, accLogPath |-> accLogPath, gyroLogPath |-> gyroLogPath]
Title == IF isLogging THEN StopTitle ELSE StartTitle

One(e) == SetToBag({e})

RECURSIVE SeqToBag(_)
SeqToBag(q) == IF q = <<>> THEN EmptyBag ELSE One(Head(q)) (+) SeqToBag(Tail(q))

EmitCount == Len(emitted["acc"]) + Len(emitted["gyro"])

(***************************************************************************)
(* React state, renders and the subscription effect.                       *)
(***************************************************************************)
\* The effect of part_000 lines 60-96 run for a render whose values are c: the
\* cleanup returned by the previous run unsubscribes the subscriptions that run
\* made, then both sources are subscribed with callbacks closed over c.
\* the effect, had it returned no cleanup: the earlier subscriptions stay
useEffectNoCleanup(prevSubs, c) == Append(prevSubs, c)

useEffectSubscriptions(prevSubs, c) == <<c>>

\* the cleanup alone (unmount)
effectCleanup(prevSubs) == <<>>

\* The part of the component a commit changes.
React ==
    [isLogging |-> isLogging, accLogPath |-> accLogPath, gyroLogPath |-> gyroLogPath,
     subs |-> subs, effectPending |-> effectPending]

DepsOf(r) ==
    [isLogging |-> r.isLogging, accLogPath |-> r.accLogPath, gyroLogPath |-> r.gyroLogPath]

\* One render and commit with the state values upd.  Setting the values the
\* state already has bails out.  React flushes the passive effect still pending
\* from the previous commit before it renders, and schedules the effect again
\* because its deps [isLogging, accLogPath, gyroLogPath] changed.
Commit(r, upd) ==
    IF DepsOf(r) = upd
      THEN r
      ELSE [isLogging |-> upd.isLogging,
            accLogPath |-> upd.accLogPath,
            gyroLogPath |-> upd.gyroLogPath,
            subs |-> IF r.effectPending
                       THEN useEffectSubscriptions(r.subs, DepsOf(r))
                       ELSE r.subs,
            effectPending |-> TRUE]

setIsLogging(r, b) == Commit(r, [DepsOf(r) EXCEPT !.isLogging = b])
setAccLogPath(r, p) == Commit(r, [DepsOf(r) EXCEPT !.accLogPath = p])
setGyroLogPath(r, p) == Commit(r, [DepsOf(r) EXCEPT !.gyroLogPath = p])

\* lines 166-171, had setGyroLogPath(pathGyro) been left out
PublishAccOnly(r, pathAcc, pathGyro, batched) ==
    IF batched
      THEN Commit(r, [isLogging |-> TRUE, accLogPath |-> pathAcc, gyroLogPath |-> r.gyroLogPath])
      ELSE setIsLogging(setAccLogPath(r, pathAcc), TRUE)

\* part_000 lines 166-167 and 171 after both writes succeeded.  The three
\* setState calls run without an await between them: React commits them as
\* one render (batched) or as three renders in a row, depending on its version.
PublishAndActivate(r, pathAcc, pathGyro, batched) ==
    IF batched
      THEN Commit(r, [isLogging |-> TRUE, accLogPath |-> pathAcc, gyroLogPath |-> pathGyro])
      ELSE setIsLogging(setGyroLogPath(setAccLogPath(r, pathAcc), pathGyro), TRUE)

\* A setState on an unmounted component changes nothing.
Apply(r) ==
    IF mounted
      THEN /\ isLogging' = r.isLogging
           /\ accLogPath' = r.accLogPath
           /\ gyroLogPath' = r.gyroLogPath
           /\ subs' = r.subs
           /\ effectPending' = r.effectPending
      ELSE UNCHANGED <<isLogging, accLogPath, gyroLogPath, subs, effectPending>>

WriteFile(fs, path, contents) ==
    [p \in DOMAIN fs \cup {path} |-> IF p = path THEN contents ELSE fs[p]]

AppendFile(fs, path, line) ==
    [p \in DOMAIN fs \cup {path} |->
        IF p = path
          THEN (IF path \in DOMAIN fs THEN Append(fs[path], line) ELSE <<line>>)
          ELSE fs[p]]

(***************************************************************************)
(* Initial state: mounted, first render committed, first effect run.       *)
(***************************************************************************)
InitClosure == [isLogging |-> FALSE, accLogPath |-> NoPath, gyroLogPath |-> NoPath]

InitApp ==
    /\ accData = <<>>
    /\ gyroData = <<>>
    /\ accLogPath = NoPath
    /\ gyroLogPath = NoPath
    /\ isLogging = FALSE
    /\ subs = useEffectSubscriptions(<<>>, InitClosure)
    /\ effectPending = FALSE
    /\ mounted = TRUE
    /\ now = 0
    /\ taps = <<>>
    /\ starts = EmptyBag
    /\ appendQ = EmptyBag
    /\ files = <<>>
    /\ console = {}
    /\ emitted = [s \in Streams |-> <<>>]
    /\ started = 0
    /\ shared = {}
    /\ sharing = 0

\* the component after its first render; no call of normalizeArrays on its own
Init ==
    /\ InitApp
    /\ callArrays = <<>>
    /\ callMaxLength = MAX_POINTS
    /\ callReturned = <<>>

(***************************************************************************)
(* Actions.  The code reads the wall clock and never compares two readings, *)
(* so the clock is modelled up to order and equality.  A start reads the   *)
(* millisecond of the start before it or a later one: two starts may get   *)
(* the same token.  A callback that logs reads the clock when its sample    *)
(* arrives: the millisecond last read or a later one.                      *)
(***************************************************************************)
ClockReadings == {now, now + 1}

\* The user touches the toggle button, whose title is that of the last render
\* (line 204); the touch reaches the JS thread later.
Touch ==
    /\ mounted
    /\ taps' = Append(taps, Title)
    /\ UNCHANGED <<apart, accData, gyroData, accLogPath, gyroLogPath, isLogging, subs,
                   effectPending, mounted, now, starts, appendQ, files, console,
                   emitted, started>>

\* the handler, had its start branch published the paths and the state before
\* the files were written
handleTogglePublishesFirst(t) ==
    /\ IF ~isLogging
         THEN /\ now' = t
              /\ starts' = starts (+) One([time |-> createTimestamp(t), pc |-> "writeAcc"])
              /\ started' = started + 1
              /\ Apply(PublishAndActivate(React, PathOf(createTimestamp(t), "acc"),
                                          PathOf(createTimestamp(t), "gyro"), TRUE))
         ELSE /\ t = now
              /\ Apply(setIsLogging(React, FALSE))
              /\ UNCHANGED <<starts, now, started>>
    /\ UNCHANGED <<apart, accData, gyroData, mounted, appendQ, files, console, emitted>>

\* the handler, had its stop branch also reset the published paths
handleToggleStopClearsPaths(t) ==
    /\ IF ~isLogging
         THEN /\ now' = t
              /\ starts' = starts (+) One([time |-> createTimestamp(t), pc |-> "writeAcc"])
              /\ started' = started + 1
              /\ UNCHANGED <<isLogging, accLogPath, gyroLogPath, subs, effectPending>>
         ELSE /\ t = now
              /\ Apply(Commit(React, [isLogging |-> FALSE, accLogPath |-> NoPath,
                                      gyroLogPath |-> NoPath]))
              /\ UNCHANGED <<starts, now, started>>
    /\ UNCHANGED <<apart, accData, gyroData, mounted, appendQ, files, console, emitted>>

\* handleToggleLogging up to its first await (start branch, lines 152-164, the
\* clock read at t) or to its end (stop branch, line 174).  The handler is the
\* one of the last render, so the isLogging it reads is the committed one.
handleToggleLogging(t) ==
    /\ IF ~isLogging
         THEN /\ now' = t
              /\ starts' = starts (+) One([time |-> createTimestamp(t), pc |-> "writeAcc"])
              /\ started' = started + 1
              /\ UNCHANGED <<isLogging, accLogPath, gyroLogPath, subs, effectPending>>
         ELSE /\ t = now
              /\ Apply(setIsLogging(React, FALSE))
              /\ UNCHANGED <<starts, now, started>>
    /\ UNCHANGED <<apart, accData, gyroData, mounted, appendQ, files, console, emitted>>

\* A queued touch is delivered to the button's onPress (line 205).
Press ==
    /\ mounted
    /\ taps # <<>>
    /\ taps' = Tail(taps)
    /\ \E t \in ClockReadings : handleToggleLogging(t)

\* the first completion, had setAccLogPath(pathAcc) been called right after
\* the first write
WriteAccDonePublishesEarly(e, ok) ==
    /\ BagIn(e, starts)
    /\ e.pc = "writeAcc"
    /\ IF ok
         THEN /\ files' = WriteFile(files, PathOf(e.time, "acc"), <<Header>>)
              /\ starts' = (starts (-) One(e)) (+) One([e EXCEPT !.pc = "writeGyro"])
              /\ Apply(setAccLogPath(React, PathOf(e.time, "acc")))
              /\ UNCHANGED console
         ELSE /\ console' = console \cup {FileCreateError}
              /\ Apply(setIsLogging(React, TRUE))
              /\ starts' = starts (-) One(e)
              /\ UNCHANGED files
    /\ UNCHANGED <<apart, accData, gyroData, mounted, now, taps, appendQ, emitted, started>>

\* await RNFS.writeFile(pathAcc, header) completes (line 164): on success the
\* handler goes on to the second write, on failure to the catch block (line
\* 169) and to line 171.
WriteAccDone(e, ok) ==
    /\ BagIn(e, starts)
    /\ e.pc = "writeAcc"
    /\ IF ok
         THEN /\ files' = WriteFile(files, PathOf(e.time, "acc"), <<Header>>)
              /\ starts' = (starts (-) One(e)) (+) One([e EXCEPT !.pc = "writeGyro"])
              /\ UNCHANGED <<isLogging, accLogPath, gyroLogPath, subs, effectPending,
                             console>>
         ELSE /\ console' = console \cup {FileCreateError}
              /\ Apply(setIsLogging(React, TRUE))
              /\ starts' = starts (-) One(e)
              /\ UNCHANGED files
    /\ UNCHANGED <<apart, accData, gyroData, mounted, now, taps, appendQ, emitted, started>>

\* await RNFS.writeFile(pathGyro, header) completes (line 165), then lines
\* 166-171.
WriteGyroDone(e, ok, batched) ==
    /\ BagIn(e, starts)
    /\ e.pc = "writeGyro"
    /\ LET pathAcc == PathOf(e.time, "acc")
           pathGyro == PathOf(e.time, "gyro")
       IN  IF ok
             THEN /\ files' = WriteFile(files, pathGyro, <<Header>>)
                  /\ Apply(PublishAndActivate(React, pathAcc, pathGyro, batched))
                  /\ UNCHANGED console
             ELSE /\ batched
                  /\ console' = console \cup {FileCreateError}
                  /\ Apply(setIsLogging(React, TRUE))
                  /\ UNCHANGED files
    /\ starts' = starts (-) One(e)
    /\ UNCHANGED <<apart, accData, gyroData, mounted, now, taps, appendQ, emitted, started>>

\* The appends the live subscriptions of stream s submit for sample v, the
\* n-th of its stream, at clock value t (lines 72-75, 86-89).
SubmittedAppends(ss, s, v, n, t) ==
    LET logging == SelectSeq(ss, LAMBDA c : c.isLogging /\ ClosurePath(c, s) # NoPath)
    IN  [j \in 1..Len(logging) |->
            [stream |-> s, path |-> ClosurePath(logging[j], s), line |-> LogLine(t, v, n)]]

RECURSIVE PushTimes(_, _, _)
PushTimes(prev, v, k) == IF k = 0 THEN prev ELSE PushTimes(PushSample(prev, v), v, k - 1)

\* Source s emits v: every live subscription's callback runs (lines 64-76,
\* 78-90); one that logs reads the clock at t (Date.now(), lines 73, 87).
SensorEmit(s, v, t) ==
    LET submitted == SubmittedAppends(subs, s, v, Len(emitted[s]) + 1, t)
    IN  /\ emitted' = [emitted EXCEPT ![s] = Append(@, v)]
        /\ now' = IF submitted = <<>> THEN now ELSE t
        /\ submitted = <<>> => t = now
        /\ IF s = "acc"
             THEN accData' = PushTimes(accData, v, Len(subs)) /\ UNCHANGED gyroData
             ELSE gyroData' = PushTimes(gyroData, v, Len(subs)) /\ UNCHANGED accData
        /\ appendQ' = appendQ (+) SeqToBag(submitted)
        /\ UNCHANGED <<apart, accLogPath, gyroLogPath, isLogging, subs, effectPending,
                       mounted, taps, starts, files, console, started>>

\* The next sample of a source arrives.
Emit ==
    \E s \in Streams : \E t \in ClockReadings :
        SensorEmit(s, SampleAt(Len(emitted[s]) + 1), t)

\* the completion, had the catch block ended the session: setIsLogging(false)
AppendDoneAbortsSession(a, ok) ==
    /\ BagIn(a, appendQ)
    /\ appendQ' = appendQ (-) One(a)
    /\ files' = IF ok THEN AppendFile(files, a.path, a.line) ELSE files
    /\ console' = IF ok THEN console ELSE console \cup {AppendError(a.stream)}
    /\ IF ok
         THEN UNCHANGED <<isLogging, accLogPath, gyroLogPath, subs, effectPending>>
         ELSE Apply(setIsLogging(React, FALSE))
    /\ UNCHANGED <<apart, accData, gyroData, mounted, now, taps, starts, emitted, started>>

\* A submitted RNFS.appendFile completes; completions are not ordered.  A
\* failed one is caught and logged (lines 74, 88).
AppendDone(a, ok) ==
    /\ BagIn(a, appendQ)
    /\ appendQ' = appendQ (-) One(a)
    /\ files' = IF ok THEN AppendFile(files, a.path, a.line) ELSE files
    /\ console' = IF ok THEN console ELSE console \cup {AppendError(a.stream)}
    /\ UNCHANGED <<apart, accData, gyroData, accLogPath, gyroLogPath, isLogging, subs,
                   effectPending, mounted, now, taps, starts, emitted, started>>

\* The passive effect scheduled by the last commit runs.
RunEffect ==
    /\ mounted
    /\ effectPending
    /\ subs' = useEffectSubscriptions(subs, Closure)
    /\ effectPending' = FALSE
    /\ UNCHANGED <<apart, accData, gyroData, accLogPath, gyroLogPath, isLogging, mounted,
                   now, taps, starts, appendQ, files, console, emitted, started>>

\* The component unmounts: the effect's cleanup runs (lines 92-95).
Unmount ==
    /\ mounted
    /\ mounted' = FALSE
    /\ subs' = effectCleanup(subs)
    /\ effectPending' = FALSE
    /\ UNCHANGED <<apart, accData, gyroData, accLogPath, gyroLogPath, isLogging, now, taps,
                   starts, appendQ, files, console, emitted, started>>

\* 'file://' + path
FileUrl(path) == [scheme |-> "file://", path |-> path]

\* handleShareLogs up to its await (lines 183-194), reached through the Share
\* button, which is disabled while both paths are empty (line 210): the urls
\* are handed to Share.open and the handler is suspended.
handleShareLogs ==
    /\ IF accLogPath = NoPath \/ gyroLogPath = NoPath
         THEN UNCHANGED <<shared, sharing>>
         ELSE /\ shared' = shared \cup {<<FileUrl(accLogPath), FileUrl(gyroLogPath)>>}
              /\ sharing' = sharing + 1
    /\ UNCHANGED <<accData, gyroData, accLogPath, gyroLogPath, isLogging, subs,
                   effectPending, mounted, now, taps, starts, appendQ, files, console,
                   emitted, started, callArrays, callMaxLength, callReturned>>

ShareLogs ==
    /\ mounted
    /\ ~(accLogPath = NoPath /\ gyroLogPath = NoPath)
    /\ handleShareLogs

\* await Share.open(...) settles (line 187); a rejection is caught and logged
\* (lines 195-197).
ShareOpenDone(ok) ==
    /\ sharing > 0
    /\ sharing' = sharing - 1
    /\ console' = IF ok THEN console ELSE console \cup {ShareError}
    /\ UNCHANGED <<accData, gyroData, accLogPath, gyroLogPath, isLogging, subs,
                   effectPending, mounted, now, taps, starts, appendQ, files, emitted,
                   started, shared, callArrays, callMaxLength, callReturned>>

ShareSettles == \E ok \in BOOLEAN : ShareOpenDone(ok)

WriteAcc == \E e \in BagToSet(starts) : \E ok \in BOOLEAN : WriteAccDone(e, ok)
WriteGyro == \E e \in BagToSet(starts) : \E ok, batched \in BOOLEAN : WriteGyroDone(e, ok, batched)
AppendCompletes == \E a \in BagToSet(appendQ) : \E ok \in BOOLEAN : AppendDone(a, ok)

(***************************************************************************)
(* Specifications.                                                         *)
(***************************************************************************)
Next ==
    \/ Len(taps) < MaxTaps /\ Touch
    \/ (isLogging \/ started < MaxSessions) /\ Press
    \/ WriteAcc
    \/ WriteGyro
    \/ EmitCount < MaxEmit /\ Emit
    \/ AppendCompletes
    \/ RunEffect

Spec == Init /\ [][Next]_vars

\* Repeated and overlapping starts; of the two sources (whose callbacks are the
\* same code) only the accelerometer emits.
NextWide ==
    \/ Len(taps) < WideTaps /\ Touch
    \/ (isLogging \/ started < WideSessions) /\ Press
    \/ WriteAcc
    \/ WriteGyro
    \/ /\ EmitCount < WideEmit
       /\ \E t \in ClockReadings : SensorEmit("acc", SampleAt(Len(emitted["acc"]) + 1), t)
    \/ AppendCompletes
    \/ RunEffect

\* The button and the starts alone, with the settling of the two writeFile
\* promises: a promise of the file system settles, so a suspended start is
\* resumed.
NextLive ==
    \/ Len(taps) < LiveTaps /\ Touch
    \/ (isLogging \/ started < LiveSessions) /\ Press
    \/ WriteAcc
    \/ WriteGyro
    \/ RunEffect

SpecLive == Init /\ [][NextLive]_vars /\ WF_vars(WriteAcc) /\ WF_vars(WriteGyro)

SpecWide == Init /\ [][NextWide]_vars

\* The component may also be unmounted; the sources go on emitting.
NextTeardown ==
    \/ Len(taps) < DownTaps /\ Touch
    \/ (isLogging \/ started < DownSessions) /\ Press
    \/ WriteAcc
    \/ WriteGyro
    \/ EmitCount < DownEmit /\ Emit
    \/ AppendCompletes
    \/ RunEffect
    \/ Unmount

SpecTeardown == Init /\ [][NextTeardown]_vars

\* The two buttons and the starts, without the sensors.
NextShare ==
    \/ Len(taps) < ShareTaps /\ Touch
    \/ (isLogging \/ started < ShareSessions) /\ Press
    \/ WriteAcc
    \/ WriteGyro
    \/ RunEffect
    \/ sharing < SharePending /\ ShareLogs
    \/ ShareSettles

SpecShare == Init /\ [][NextShare]_vars

\* Only the sources act: both windows are filled past MAX_POINTS.
NextWindow ==
    \E s \in Streams :
        /\ Len(emitted[s]) < MaxPush
        /\ \E t \in ClockReadings : SensorEmit(s, SampleAt(Len(emitted[s]) + 1), t)

SpecWindow == Init /\ [][NextWindow]_vars

(***************************************************************************)
(* Helpers of the properties.                                              *)
(***************************************************************************)
(* normalizeArrays called on its own, on every batch of bounded arrays and  *)
(* every bounded target length, then called again on what it returned.     *)
(***************************************************************************)
Values == {Num(1), Num(2), NaN, PosInf}
Arrays(n) == UNION {[1..k -> Values] : k \in 0..n}
Batches ==
    {<<>>} \cup {<<a>> : a \in Arrays(MaxArrayLength)}
           \cup {<<a, b>> : a \in Arrays(MaxArrayLength), b \in Arrays(1)}

InitNormalize ==
    /\ InitApp
    /\ callArrays \in Batches
    /\ callMaxLength \in 0..MaxTarget
    /\ callReturned = <<>>

notCalled == <<accData, gyroData, accLogPath, gyroLogPath, isLogging, subs, effectPending,
               mounted, now, taps, starts, appendQ, files, console, emitted, started,
               shared, sharing, callArrays, callMaxLength>>

normalizeCall ==
    /\ callReturned = <<>>
    /\ callReturned' = <<normalizeArrays(callArrays, callMaxLength)>>
    /\ UNCHANGED notCalled

normalizeAgain ==
    /\ Len(callReturned) = 1
    /\ callReturned' = Append(callReturned, normalizeArrays(callReturned[1], callMaxLength))
    /\ UNCHANGED notCalled

NextNormalize == normalizeCall \/ normalizeAgain

SpecNormalize == InitNormalize /\ [][NextNormalize]_vars

(***************************************************************************)
IsRow(l) == "n" \in DOMAIN l
Min(a, b) == IF a < b THEN a ELSE b
Last(q) == q[Len(q)]
LastN(q, n) == SubSeq(q, Len(q) - Min(Len(q), n) + 1, Len(q))
Active == IF isLogging THEN 1 ELSE 0

\* a start's file creation fails in this step
CreationFails ==
    \E e \in BagToSet(starts) : WriteAccDone(e, FALSE) \/ WriteGyroDone(e, FALSE, TRUE)

(***************************************************************************)
(* C1.  If a file creation of a session start fails, the start does not    *)
(* complete: isLogging stays false and neither log path changes.           *)
(* The code runs setIsLogging(true) after the catch block, so this fails.  *)
(***************************************************************************)
C1_FailedStartStaysIdle ==
    [][(CreationFails /\ ~isLogging) =>
          (~isLogging' /\ accLogPath' = accLogPath /\ gyroLogPath' = gyroLogPath)]_vars

(***************************************************************************)
(* C2.  In every log file the rows appear in the order the samples         *)
(* arrived: a later sample's row never precedes an earlier sample's row.   *)
(* The appends are not serialised, so this fails.                          *)
(***************************************************************************)
C2_RowsInArrivalOrder ==
    \A p \in DOMAIN files : \A i, j \in 1..Len(files[p]) :
        (i < j /\ IsRow(files[p][i]) /\ IsRow(files[p][j])) => files[p][i].n < files[p][j].n

(***************************************************************************)
(* C3.  After every push the window of each stream has at most MAX_POINTS  *)
(* samples and equals the last min(count, MAX_POINTS) samples delivered,   *)
(* oldest first.                                                           *)
(***************************************************************************)
C3_WindowIsLastN ==
    mounted =>
        \A s \in Streams :
            /\ Len(Data(s)) <= MAX_POINTS
            /\ Len(Data(s)) = Min(Len(emitted[s]), MAX_POINTS)
            /\ Data(s) = LastN(emitted[s], MAX_POINTS)

\* a window that overflowed: more samples delivered than it holds
C3_Witness ==
    /\ Len(emitted["acc"]) > MAX_POINTS
    /\ Len(accData) = MAX_POINTS
    /\ accData[1] = SampleAt(Len(emitted["acc"]) - MAX_POINTS + 1)
    /\ Len(emitted["gyro"]) > MAX_POINTS

(***************************************************************************)
(* C4.  While the committed state is Idle (after a stop) an arriving       *)
(* sample submits no append and is still pushed into its window.  A        *)
(* callback subscribed before the stop still holds isLogging = true until  *)
(* the effect runs again, so this fails.                                   *)
(***************************************************************************)
C4_NoAppendAfterStop ==
    [][(~isLogging /\ emitted' # emitted) =>
          /\ appendQ' = appendQ
          /\ accData' = IF emitted'["acc"] # emitted["acc"]
                          THEN PushSample(accData, Last(emitted'["acc"])) ELSE accData
          /\ gyroData' = IF emitted'["gyro"] # emitted["gyro"]
                           THEN PushSample(gyroData, Last(emitted'["gyro"])) ELSE gyroData]_vars

(***************************************************************************)
(* C5.  At most one session is being started or Active at a time: a start  *)
(* request made while another start is in flight is ignored.  The handler  *)
(* reads isLogging, which is still false while the files are being         *)
(* created, so this fails.                                                 *)
(***************************************************************************)
C5_SingleSession == BagCardinality(starts) + Active <= 1

(***************************************************************************)
(* C6.  Every sample that arrives while the state is Active and a path is  *)
(* published for its stream submits exactly one append of its row to that  *)
(* path.  A callback subscribed before the start still holds               *)
(* isLogging = false until the effect runs again, so this fails.           *)
(***************************************************************************)
C6_EverySampleAppendedOnce ==
    [][\A s \in Streams :
          (isLogging /\ LogPath(s) # NoPath /\ emitted'[s] # emitted[s]) =>
              appendQ' = appendQ (+) One([stream |-> s,
                                          path |-> LogPath(s),
                                          line |-> LogLine(now', Last(emitted'[s]),
                                                           Len(emitted'[s]))])]_vars

(***************************************************************************)
(* C7.  A new session writes to files of its own: when the state moves     *)
(* from Idle to Active after an earlier session published its paths, the   *)
(* paths published now are new ones.  A start whose file creation failed   *)
(* becomes Active on the earlier session's paths, and two starts in the    *)
(* same millisecond share their paths, so this fails.                      *)
(***************************************************************************)
C7_NewSessionNewPaths ==
    [][(~isLogging /\ isLogging' /\ accLogPath # NoPath /\ gyroLogPath # NoPath) =>
          (accLogPath' # accLogPath /\ gyroLogPath' # gyroLogPath)]_vars

(***************************************************************************)
(* C8.  Every log file begins with the header line and holds only rows     *)
(* after it; a path is published (in the state, in a live callback, in an  *)
(* append in flight) only once its file has been created, so no row is     *)
(* appended before the header.                                             *)
(***************************************************************************)
C8_HeaderFirst ==
    /\ \A p \in DOMAIN files :
          /\ files[p] # <<>>
          /\ ~IsRow(files[p][1])
          /\ files[p][1] = Header
          /\ \A i \in 2..Len(files[p]) : IsRow(files[p][i])
    /\ \A a \in BagToSet(appendQ) : a.path \in DOMAIN files
    /\ \A s \in Streams :
          /\ LogPath(s) # NoPath => LogPath(s) \in DOMAIN files
          /\ \A i \in 1..Len(subs) :
                ClosurePath(subs[i], s) # NoPath => ClosurePath(subs[i], s) \in DOMAIN files

\* a created file that received a row
C8_Witness ==
    \E p \in DOMAIN files : Len(files[p]) >= 2 /\ files[p][1] = Header /\ IsRow(files[p][2])

(***************************************************************************)
(* C9.  An append that fails is logged and dropped: the step changes       *)
(* neither isLogging nor a published path nor a window nor the live        *)
(* callbacks, and submits nothing again.                                   *)
(***************************************************************************)
FailedAppendStep ==
    /\ BagCardinality(appendQ') < BagCardinality(appendQ)
    /\ files' = files

C9_FailedAppendDropped ==
    [][FailedAppendStep =>
          /\ isLogging' = isLogging
          /\ accLogPath' = accLogPath
          /\ gyroLogPath' = gyroLogPath
          /\ accData' = accData
          /\ gyroData' = gyroData
          /\ subs' = subs
          /\ effectPending' = effectPending
          /\ starts' = starts
          /\ \E a \in BagToSet(appendQ) :
                /\ appendQ' = appendQ (-) One(a)
                /\ console' = console \cup {AppendError(a.stream)}]_vars

\* the append of the first acc sample failed, the session is still Active and
\* the second acc sample is in the file
C9_Witness ==
    /\ AccAppendError \in console
    /\ isLogging
    /\ \E p \in DOMAIN files :
          /\ Len(files[p]) = 2
          /\ IsRow(files[p][2])
          /\ files[p][2].n = 2
          /\ p = accLogPath

(***************************************************************************)
(* C10.  As claimed: a stop request (a touch on the button titled "Stop    *)
(* Logging") leaves the state Idle, does no file I/O, leaves paths and     *)
(* windows unchanged, and a second one while already Idle starts nothing.  *)
(* The handler is a toggle, so the second request takes the start branch.  *)
(***************************************************************************)
PressStep == taps # <<>> /\ taps' = Tail(taps)

StopFrame ==
    /\ files' = files
    /\ appendQ' = appendQ
    /\ starts' = starts
    /\ accLogPath' = accLogPath
    /\ gyroLogPath' = gyroLogPath
    /\ accData' = accData
    /\ gyroData' = gyroData

C10_StopIdempotent ==
    [][(PressStep /\ Head(taps) = StopTitle) => (~isLogging' /\ StopFrame)]_vars

(***************************************************************************)
(* C10, amended.  A request handled while Active takes the stop branch: it  *)
(* leaves the state Idle, does no file I/O and leaves paths and windows     *)
(* unchanged.  A request handled while Idle, whatever title was touched,    *)
(* takes the start branch: it begins one start and changes neither the      *)
(* state nor the paths nor the windows in that step.                        *)
(***************************************************************************)
C10_StopBranch ==
    [][PressStep =>
          IF isLogging
            THEN ~isLogging' /\ StopFrame
            ELSE /\ BagCardinality(starts') = BagCardinality(starts) + 1
                 /\ ~isLogging'
                 /\ files' = files
                 /\ accLogPath' = accLogPath
                 /\ gyroLogPath' = gyroLogPath
                 /\ accData' = accData
                 /\ gyroData' = gyroData]_vars

\* stopped: Idle with the session's paths kept and a sample in the window
C10_Witness ==
    /\ ~isLogging
    /\ accLogPath # NoPath
    /\ gyroLogPath # NoPath
    /\ accData # <<>>
    /\ starts = EmptyBag

(***************************************************************************)
(* C11.  A start whose second file creation has succeeded (the first one   *)
(* succeeded before it) is Active in the same step, with the acc and the   *)
(* gyro path of that start published and both files existing; and a start  *)
(* suspended at its second creation leads to the Active state.             *)
(***************************************************************************)
SecondCreationPending == \E e \in BagToSet(starts) : e.pc = "writeGyro"

C11_SuccessfulStartActivates ==
    /\ [][\A e \in BagToSet(starts) : \A b \in BOOLEAN :
            WriteGyroDone(e, TRUE, b) =>
                /\ isLogging'
                /\ accLogPath' = PathOf(e.time, "acc")
                /\ gyroLogPath' = PathOf(e.time, "gyro")
                /\ {accLogPath', gyroLogPath'} \subseteq DOMAIN files']_vars
    /\ (SecondCreationPending ~> isLogging)

\* Active on the two paths of one start, both files created, no start left
C11_Witness ==
    /\ isLogging
    /\ starts = EmptyBag
    /\ console = {}
    /\ \E t \in 0..now :
          /\ accLogPath = PathOf(createTimestamp(t), "acc")
          /\ gyroLogPath = PathOf(createTimestamp(t), "gyro")
    /\ {accLogPath, gyroLogPath} \subseteq DOMAIN files

(***************************************************************************)
(* C12.  For every batch and every target length N, every returned array   *)
(* has exactly N elements, all finite: its k-th element is the input's      *)
(* element at k - (N - length), non-finite replaced by 0, or 0 where the    *)
(* input has no such element (left padding); a longer input keeps its last  *)
(* N elements.                                                              *)
(***************************************************************************)
IsFinite(val) == val.k = "fin"

ExpectedAt(arr, n, k) ==
    LET idx == k - (n - Len(arr))
    IN  IF idx >= 1
          THEN (IF IsFinite(arr[idx]) THEN arr[idx] ELSE Num(0))
          ELSE Num(0)

C12_NormalizeShape ==
    callReturned # <<>> =>
        LET out == callReturned[1]
        IN  /\ Len(out) = Len(callArrays)
            /\ \A i \in 1..Len(out) :
                  /\ Len(out[i]) = callMaxLength
                  /\ \A k \in 1..Len(out[i]) :
                        /\ IsFinite(out[i][k])
                        /\ out[i][k] = ExpectedAt(callArrays[i], callMaxLength, k)

\* a batch of a longer array, with a non-finite value among its last N, and a
\* shorter one has been normalized
C12_Witness ==
    /\ Len(callReturned) = 1
    /\ Len(callArrays) = 2
    /\ Len(callArrays[1]) > callMaxLength
    /\ Len(callArrays[2]) < callMaxLength
    /\ callArrays[1][Len(callArrays[1])] = NaN
    /\ callArrays[1][Len(callArrays[1]) - 1] = Num(2)
    /\ callReturned[1][1][callMaxLength] = Num(0)

(***************************************************************************)
(* C13.  normalizeArrays called on its own result with the same target      *)
(* length returns that result.                                              *)
(***************************************************************************)
C13_NormalizeIdempotent ==
    Len(callReturned) = 2 => callReturned[2] = callReturned[1]

\* the second call was made on the result of a batch that the first call
\* changed: a value replaced, an array cut, an array padded
C13_Witness ==
    /\ Len(callReturned) = 2
    /\ Len(callArrays) = 2
    /\ callReturned[1] # callArrays
    /\ Len(callArrays[1]) > callMaxLength
    /\ Len(callArrays[2]) < callMaxLength
    /\ PosInf \in {callArrays[1][k] : k \in 1..Len(callArrays[1])}

(***************************************************************************)
(* C14.  In every state the three arrays rendered for a stream have         *)
(* MAX_POINTS elements each and are index-aligned, oldest first: the k-th   *)
(* elements are the x, y and z of one sample of the window (a non-finite    *)
(* field shown as 0), or all padding zeros in front of a window that is     *)
(* not full; once more than MAX_POINTS samples were pushed they are the     *)
(* fields of the last MAX_POINTS samples.                                   *)
(***************************************************************************)
Shown(val) == IF IsFinite(val) THEN val ELSE Num(0)

C14_AxesAligned ==
    \A s \in Streams :
        LET r == Rendered(s)
            pad == MAX_POINTS - Len(Data(s))
            skipped == Len(emitted[s]) - MAX_POINTS
        IN  /\ Len(r) = 3
            /\ \A a \in 1..3 : Len(r[a]) = MAX_POINTS
            /\ \A k \in 1..MAX_POINTS :
                  IF k <= pad
                    THEN r[1][k] = Num(0) /\ r[2][k] = Num(0) /\ r[3][k] = Num(0)
                    ELSE /\ r[1][k] = Shown(Data(s)[k - pad].x)
                         /\ r[2][k] = Shown(Data(s)[k - pad].y)
                         /\ r[3][k] = Shown(Data(s)[k - pad].z)
            /\ skipped > 0 =>
                  \A k \in 1..MAX_POINTS :
                      /\ r[1][k] = Shown(emitted[s][skipped + k].x)
                      /\ r[2][k] = Shown(emitted[s][skipped + k].y)
                      /\ r[3][k] = Shown(emitted[s][skipped + k].z)

\* two samples more than the window holds were pushed: the rendered x array
\* starts at the third sample, and a non-finite y is shown as 0
C14_Witness ==
    /\ Len(emitted["gyro"]) = MAX_POINTS + 2
    /\ Rendered("gyro")[1][1] = Num(3)
    /\ Rendered("gyro")[1][MAX_POINTS] = Num(MAX_POINTS + 2)
    /\ gyroData[2].y = NaN
    /\ Rendered("gyro")[2][2] = Num(0)

(***************************************************************************)
(* C15.  A row, submitted or written, prints the x, y, z of its sample as   *)
(* the source delivered them: a finite field in decimal, NaN as "NaN",      *)
(* Infinity as "Infinity", never the 0 that is displayed.  The window       *)
(* stores the delivered values, and the rendered arrays show 0 for the non- *)
(* finite ones.                                                             *)
(***************************************************************************)
Verbatim(val) ==
    IF IsFinite(val)
      THEN [form |-> "decimal", value |-> val.v]
      ELSE [form |-> IF val = NaN THEN "NaN" ELSE "Infinity", value |-> 0]

RowIsRaw(s, row) ==
    /\ row.n \in 1..Len(emitted[s])
    /\ LET v == emitted[s][row.n]
       IN  /\ row.x = Verbatim(v.x)
           /\ row.y = Verbatim(v.y)
           /\ row.z = Verbatim(v.z)

C15_RowsAreRaw ==
    /\ \A p \in DOMAIN files : \A i \in 1..Len(files[p]) :
          IsRow(files[p][i]) => RowIsRaw(p[2], files[p][i])
    /\ \A a \in BagToSet(appendQ) : RowIsRaw(a.stream, a.line)
    /\ \A s \in Streams : \A i \in 1..Len(Data(s)) :
          LET v == emitted[s][Len(emitted[s]) - Len(Data(s)) + i]
              k == MAX_POINTS - Len(Data(s)) + i
          IN  /\ Data(s)[i] = v
              /\ ~IsFinite(v.y) => Rendered(s)[2][k] = Num(0)
              /\ ~IsFinite(v.z) => Rendered(s)[3][k] = Num(0)

\* the second acc sample, whose y is NaN, is in the file as "NaN", in the window
\* as NaN and on the chart as 0
C15_Witness ==
    /\ accLogPath \in DOMAIN files
    /\ \E i \in 1..Len(files[accLogPath]) :
          /\ IsRow(files[accLogPath][i])
          /\ files[accLogPath][i].n = 2
          /\ files[accLogPath][i].y = [form |-> "NaN", value |-> 0]
          /\ files[accLogPath][i].x = [form |-> "decimal", value |-> 2]
    /\ Len(accData) = 2
    /\ accData[2].y = NaN
    /\ Rendered("acc")[2][MAX_POINTS] = Num(0)

(***************************************************************************)
(* C16.  While the component is mounted exactly one pair of subscriptions   *)
(* is live, also after the effect re-ran; an emission is pushed into its    *)
(* window exactly once and nothing else changes a window; after the         *)
(* teardown no subscription is live, and an emission neither changes a      *)
(* window nor submits an append.                                            *)
(***************************************************************************)
LiveSubscriptions == IF mounted THEN Len(subs) = 1 ELSE subs = <<>>

PushedOnce(s, data, dataNext) ==
    IF emitted'[s] # emitted[s]
      THEN dataNext = IF mounted THEN PushSample(data, Last(emitted'[s])) ELSE data
      ELSE dataNext = data

C16_OneSubscriptionPerStream ==
    [][/\ LiveSubscriptions
       /\ LiveSubscriptions'
       /\ PushedOnce("acc", accData, accData')
       /\ PushedOnce("gyro", gyroData, gyroData')
       /\ (~mounted /\ emitted' # emitted) => appendQ' = appendQ]_vars

\* torn down while Active after a re-subscription; the second acc sample came
\* after the teardown and is not in the window
C16_Witness ==
    /\ ~mounted
    /\ subs = <<>>
    /\ isLogging
    /\ Len(emitted["acc"]) = 2
    /\ accData = <<SampleAt(1)>>
    /\ appendQ = EmptyBag

(***************************************************************************)
(* C17.  In every state the published acc path and gyro path are both      *)
(* empty, or are the acc file and the gyro file of one session token and   *)
(* both files were created; every url list handed to Share.open is such a  *)
(* pair.                                                                   *)
(***************************************************************************)
MatchedPair(pathAcc, pathGyro) ==
    /\ pathAcc # NoPath
    /\ pathGyro # NoPath
    /\ pathAcc[2] = "acc"
    /\ pathGyro[2] = "gyro"
    /\ pathAcc[1] = pathGyro[1]

C17_PathsArePaired ==
    /\ \/ accLogPath = NoPath /\ gyroLogPath = NoPath
       \/ /\ MatchedPair(accLogPath, gyroLogPath)
          /\ {accLogPath, gyroLogPath} \subseteq DOMAIN files
    /\ \A u \in shared :
          /\ Len(u) = 2
          /\ u[1].scheme = "file://"
          /\ u[2].scheme = "file://"
          /\ MatchedPair(u[1].path, u[2].path)
          /\ {u[1].path, u[2].path} \subseteq DOMAIN files

\* the logs of one session were handed to Share.open, a later session
\* published its paths while the call was pending, and the call was rejected
C17_Witness ==
    /\ started = 2
    /\ starts = EmptyBag
    /\ sharing = 0
    /\ ShareError \in console
    /\ MatchedPair(accLogPath, gyroLogPath)
    /\ \E u \in shared : u[1].path # accLogPath /\ u[2].path # gyroLogPath

====
